---- MODULE Spec2Model ----
(***************************************************************************)
(* Model of src/vectorize_and_analyze.py: the node filter, the two pattern *)
(* detectors, the pairwise similarity loop and the pairwise keyword loop   *)
(* of vectorize_and_find_similar.                                          *)
(*                                                                         *)
(* Text is a sequence of one-character strings, so that lower(), the       *)
(* substring test, the regular expressions and the tokenizer are computed  *)
(* character by character.  Real numbers (cosine similarities, TF-IDF      *)
(* weights, thresholds) are integers in ten-thousandths.                   *)
(***************************************************************************)
EXTENDS Integers, Sequences, FiniteSets, TLC

VARIABLES
    pc,                 \* position in the program
    nodes,              \* the argument of vectorize_and_find_similar
    env,                \* which pretrained model / corpus statistics are in use
    valid_nodes,
    contents,
    embeddings,
    tfidf_matrix,
    keywords,
    similar_pairs,
    keyword_pairs,
    causal_pairs,
    hierarchical_pairs

vars == <<pc, nodes, env, valid_nodes, contents, embeddings, tfidf_matrix,
          keywords, similar_pairs, keyword_pairs, causal_pairs, hierarchical_pairs>>

----------------------------------------------------------------------------
(* Bounds of the model.                                                    *)

\* longest raw node list
MaxNodes == 3
\* longest generated heading-like string, in characters
MaxLen == 5
\* most parts (phrases, filler words) concatenated into one generated text
MaxWords == 2
\* most filler contents placed in front of the generated content
MaxPad == 1

----------------------------------------------------------------------------
(* Characters and strings.                                                 *)

LowerLetters ==
    <<"a", "b", "c", "d", "e", "f", "g", "h", "i", "j", "k", "l", "m",
      "n", "o", "p", "q", "r", "s", "t", "u", "v", "w", "x", "y", "z">>

UpperLetters ==
    <<"A", "B", "C", "D", "E", "F", "G", "H", "I", "J", "K", "L", "M",
      "N", "O", "P", "Q", "R", "S", "T", "U", "V", "W", "X", "Y", "Z">>

Digits == <<"0", "1", "2", "3", "4", "5", "6", "7", "8", "9">>

Range(s) == {s[i] : i \in 1..Len(s)}

DigitSet == Range(Digits)
LowerSet == Range(LowerLetters)
UpperSet == Range(UpperLetters)

\* the lower-case letter of every upper-case letter
LowerOf ==
    [c \in UpperSet |->
        LowerLetters[CHOOSE i \in 1..Len(UpperLetters) : UpperLetters[i] = c]]

\* str.lower() on one character
LowerChar(c) == IF c \in UpperSet THEN LowerOf[c] ELSE c

\* str.lower()
Lower(s) == [i \in 1..Len(s) |-> LowerChar(s[i])]

\* Python's  needle in hay  on strings
Contains(hay, needle) ==
    \E k \in 0..(Len(hay) - Len(needle)) :
        SubSeq(hay, k + 1, k + Len(needle)) = needle

\* the regular-expression character classes \d, [A-Za-z], \s and . (no DOTALL)
SpaceSet == {" ", "\t", "\n", "\r", "\f"}
IsDigit(c) == c \in DigitSet
IsAsciiLetter(c) == c \in LowerSet \/ c \in UpperSet
IsSpace(c) == c \in SpaceSet
IsDot(c) == c # "\n"

\* str(n) for a non-negative integer
RECURSIVE IntToStr(_)
IntToStr(n) ==
    IF n < 10 THEN <<Digits[n + 1]>>
    ELSE IntToStr(n \div 10) \o <<Digits[(n % 10) + 1]>>

----------------------------------------------------------------------------
(* Pattern detectors.                                                      *)

causal_phrases == <<
    <<"b", "e", "c", "a", "u", "s", "e">>,
    <<"d", "u", "e", " ", "t", "o">>,
    <<"a", "s", " ", "a", " ", "r", "e", "s", "u", "l", "t">>,
    <<"t", "h", "e", "r", "e", "f", "o", "r", "e">>,
    <<"t", "h", "u", "s">>,
    <<"c", "o", "n", "s", "e", "q", "u", "e", "n", "t", "l", "y">>,
    <<"h", "e", "n", "c", "e">>,
    <<"s", "o", " ", "t", "h", "a", "t">>,
    <<"c", "a", "u", "s", "e", "d", " ", "b", "y">>,
    <<"r", "e", "s", "u", "l", "t", "e", "d", " ", "i", "n">>,
    <<"l", "e", "a", "d", "i", "n", "g", " ", "t", "o">>,
    <<"s", "i", "n", "c", "e">> >>

\* phrase in content.lower(), with no lowering: a plausible slip
PhraseFoundCaseSensitive(phrase, content) == Contains(content, phrase)

\* line 33:  phrase in content.lower()
PhraseFound(phrase, content) == Contains(Lower(content), phrase)

\* lines 32-38: the inner loop over the phrases, for the content at position idx
RECURSIVE CausalForContent(_, _, _)
CausalForContent(idx, content, p) ==
    IF p > Len(causal_phrases) THEN <<>>
    ELSE (IF PhraseFound(causal_phrases[p], content)
          THEN <<[id |-> IntToStr(idx), phrase |-> causal_phrases[p],
                  context |-> content]>>
          ELSE <<>>)
         \o CausalForContent(idx, content, p + 1)

\* lines 29-40: enumerate(contents) is 0-based, sequences are 1-based
RECURSIVE CausalFrom(_, _)
CausalFrom(cs, k) ==
    IF k > Len(cs) THEN <<>>
    ELSE CausalForContent(k - 1, cs[k], 1) \o CausalFrom(cs, k + 1)

detect_causal_relationships(cs) == CausalFrom(cs, 1)

\* The two compiled patterns differ in the class of the leading run only.
heading_patterns == <<"digits", "letters">>

\* \w+ written for \d+ in the first pattern: a plausible slip
LeadClassWord(pattern, c) ==
    IF pattern = "digits" THEN IsDigit(c) \/ IsAsciiLetter(c) ELSE IsAsciiLetter(c)

\* lines 45-46: \d+ and [A-Za-z]+
LeadClass(pattern, c) ==
    IF pattern = "digits" THEN IsDigit(c) ELSE IsAsciiLetter(c)

(* A backtracking run of  ^<lead>+\.\s+.+  from position i of s.  The      *)
(* stages are: "lead" (inside the leading run, at least one character      *)
(* taken), "space" (inside \s+, at least one taken).  .+ needs one         *)
(* character that is not a newline; what follows it is not examined.       *)
RECURSIVE RunHeading(_, _, _, _)
RunHeading(pattern, s, i, stage) ==
    IF i > Len(s) THEN FALSE
    ELSE IF stage = "start" THEN
        LeadClass(pattern, s[i]) /\ RunHeading(pattern, s, i + 1, "lead")
    ELSE IF stage = "lead" THEN
        \/ LeadClass(pattern, s[i]) /\ RunHeading(pattern, s, i + 1, "lead")
        \/ s[i] = "." /\ RunHeading(pattern, s, i + 1, "dot")
    ELSE IF stage = "dot" THEN
        IsSpace(s[i]) /\ RunHeading(pattern, s, i + 1, "space")
    ELSE
        \/ IsSpace(s[i]) /\ RunHeading(pattern, s, i + 1, "space")
        \/ IsDot(s[i])

\* the pattern without its ^, searched: tried at every start position
PatternSearch(pattern, content) ==
    \E i \in 1..Len(content) : RunHeading(pattern, content, i, "start")

\* line 50:  pattern.match(content)  tries the pattern at the first character only
PatternMatch(pattern, content) == RunHeading(pattern, content, 1, "start")

\* lines 49-54: the inner loop over the patterns
RECURSIVE HierForContent(_, _, _)
HierForContent(idx, content, p) ==
    IF p > Len(heading_patterns) THEN <<>>
    ELSE (IF PatternMatch(heading_patterns[p], content)
          THEN <<[id |-> IntToStr(idx), heading |-> content]>>
          ELSE <<>>)
         \o HierForContent(idx, content, p + 1)

RECURSIVE HierFrom(_, _)
HierFrom(cs, k) ==
    IF k > Len(cs) THEN <<>>
    ELSE HierForContent(k - 1, cs[k], 1) \o HierFrom(cs, k + 1)

detect_hierarchical_relationships(cs) == HierFrom(cs, 1)

----------------------------------------------------------------------------
(* Python values of the node records.                                      *)

\* A value read with node.get(key): None (key missing or null), an int or a str.
NoneValue == [t |-> "none", n |-> 0, s |-> <<>>]
IntValue(k) == [t |-> "int", n |-> k, s |-> <<>>]
StrValue(str) == [t |-> "str", n |-> 0, s |-> str]

\* Python truthiness of None, an int and a str
Truthy(v) ==
    \/ v.t = "int" /\ v.n # 0
    \/ v.t = "str" /\ v.s # <<>>

\* str(v)
Str(v) ==
    IF v.t = "int" THEN IntToStr(v.n)
    ELSE IF v.t = "str" THEN v.s
    ELSE <<"N", "o", "n", "e">>

\* the filter with the id test left out: a plausible slip
KeepsContentOnly(node) == Truthy(node.content)

\* line 63:  node.get('content') and node.get('id')
Keeps(node) == Truthy(node.content) /\ Truthy(node.id)

\* line 63: the list comprehension, in input order
RECURSIVE FilterFrom(_, _)
FilterFrom(ns, k) ==
    IF k > Len(ns) THEN <<>>
    ELSE (IF Keeps(ns[k]) THEN <<ns[k]>> ELSE <<>>) \o FilterFrom(ns, k + 1)

FilterNodes(ns) == FilterFrom(ns, 1)

\* contents taken from the unfiltered list: a plausible slip
ContentsOfRaw(ns, vs) == [k \in 1..Len(ns) |-> ns[k].content.s]

\* line 64:  [node['content'] for node in valid_nodes]
ContentsOf(ns, vs) == [k \in 1..Len(vs) |-> vs[k].content.s]

----------------------------------------------------------------------------
(* Collaborators: the sentence encoder and the TF-IDF vectorizer.          *)

\* line 58: threshold=0.8, keyword_threshold=0.2, in ten-thousandths
threshold == 8000
keyword_threshold == 2000

\* The texts of the pipeline runs.
TextStop == <<"t", "h", "e">>
TextHeading ==
    <<"1", ".", " ", "B", "u", "g", " ", "b", "e", "c", "a", "u", "s", "e">>
TextPlain == <<"b", "u", "g", " ", "f", "i", "x">>

(* model.encode: one vector per text, equal texts get equal vectors.  The  *)
(* two environments stand for two pretrained models; their vectors have    *)
(* norms 0, 5 or 25, so that every cosine is an exact number of            *)
(* ten-thousandths.                                                        *)
Encoder(e, text) ==
    IF e = "A" THEN
        CASE text = TextHeading -> <<25, 0>>
          [] text = TextPlain -> <<20, 15>>
          [] text = TextStop -> <<24, 7>>
          [] OTHER -> <<0, 0>>
    ELSE
        CASE text = TextHeading -> <<3, 4>>
          [] text = TextPlain -> <<4, 3>>
          [] text = TextStop -> <<-3, -4>>
          [] OTHER -> <<0, 0>>

Dot(u, v) == u[1] * v[1] + u[2] * v[2]

Abs(x) == IF x < 0 THEN -x ELSE x

Norm(u) == CHOOSE r \in 0..(Abs(u[1]) + Abs(u[2])) : r * r = Dot(u, u)

\* sklearn's cosine_similarity in ten-thousandths; normalize() leaves a zero
\* row as it is, so a zero-norm vector has similarity 0 to everything
cosine_similarity(u, v) ==
    IF Norm(u) = 0 \/ Norm(v) = 0 THEN 0
    ELSE (10000 * Dot(u, v)) \div (Norm(u) * Norm(v))

\* a subset of NLTK's English stopwords: those the texts of the model use
stop_words == {
    <<"t", "h", "e">>,
    <<"b", "e", "c", "a", "u", "s", "e">>,
    <<"i", "t">>,
    <<"o", "f">>,
    <<"t", "o">> }

\* \w of the token pattern
IsWordChar(c) == IsDigit(c) \/ IsAsciiLetter(c) \/ c = "_"

(* TfidfVectorizer's analyzer: lower-case the text, take the maximal runs  *)
(* of word characters of length two or more ((?u)\b\w\w+\b), and drop the  *)
(* stop words.  word is the run being read.                                *)
RECURSIVE Scan(_, _, _)
Scan(s, i, word) ==
    IF i > Len(s) THEN (IF Len(word) >= 2 THEN {word} ELSE {})
    ELSE IF IsWordChar(s[i]) THEN Scan(s, i + 1, Append(word, s[i]))
    ELSE (IF Len(word) >= 2 THEN {word} ELSE {}) \cup Scan(s, i + 1, <<>>)

Analyze(text) == Scan(Lower(text), 1, <<>>) \ stop_words

\* the alphabetical order of the vocabulary
RankOf ==
    [c \in DigitSet \cup LowerSet |->
        IF c \in DigitSet THEN CHOOSE i \in 1..Len(Digits) : Digits[i] = c
        ELSE 10 + (CHOOSE i \in 1..Len(LowerLetters) : LowerLetters[i] = c)]

CharRank(c) == IF c \in DOMAIN RankOf THEN RankOf[c] ELSE 0

RECURSIVE StrLess(_, _)
StrLess(a, b) ==
    IF a = <<>> THEN b # <<>>
    ELSE IF b = <<>> THEN FALSE
    ELSE IF CharRank(Head(a)) # CharRank(Head(b))
    THEN CharRank(Head(a)) < CharRank(Head(b))
    ELSE StrLess(Tail(a), Tail(b))

RECURSIVE SortedSeq(_)
SortedSeq(S) ==
    IF S = {} THEN <<>>
    ELSE LET m == CHOOSE x \in S : \A y \in S \ {x} : StrLess(x, y)
         IN  <<m>> \o SortedSeq(S \ {m})

\* line 72: get_feature_names_out(), the sorted terms of the whole corpus
Vocabulary(cs) == SortedSeq(UNION {Analyze(cs[k]) : k \in 1..Len(cs)})

(* The weight the vectorizer gives a term of a text whose terms are terms, *)
(* as a level around the keyword threshold: below it, equal to it, above.  *)
Weight(e, terms, term) ==
    IF e = "A" THEN (IF term = <<"f", "i", "x">> THEN 2000 ELSE 3000)
    ELSE (IF Cardinality(terms) = 1 THEN 1000 ELSE 3000)

\* line 71: fit_transform, one row per text; a term absent from a text is 0
TfidfRows(e, cs, vocab) ==
    [i \in 1..Len(cs) |->
        LET terms == Analyze(cs[i])
        IN  [k \in 1..Len(vocab) |->
                IF vocab[k] \in terms THEN Weight(e, terms, vocab[k]) ELSE 0]]

----------------------------------------------------------------------------
(* The two pairwise loops of vectorize_and_find_similar.                   *)

\* sim >= threshold: a plausible slip
ExceedsOrEquals(sim) == sim >= threshold

\* line 84:  sim > threshold
Exceeds(sim) == sim > threshold

\* the ids read from the unfiltered list at the filtered positions: a
\* plausible slip
SimilarEntryRaw(vs, embs, i, j) ==
    [start_id |-> Str(nodes[i].id), end_id |-> Str(nodes[j].id),
     similarity |-> cosine_similarity(embs[i], embs[j])]

\* lines 85-89
SimilarEntry(vs, embs, i, j) ==
    [start_id |-> Str(vs[i].id), end_id |-> Str(vs[j].id),
     similarity |-> cosine_similarity(embs[i], embs[j])]

\* lines 81-90, from the pair (i, j) on; positions are 1-based here
RECURSIVE SimilarFrom(_, _, _, _)
SimilarFrom(vs, embs, i, j) ==
    IF i > Len(vs) THEN <<>>
    ELSE IF j > Len(vs) THEN SimilarFrom(vs, embs, i + 1, i + 2)
    ELSE (IF Exceeds(cosine_similarity(embs[i], embs[j]))
          THEN <<SimilarEntry(vs, embs, i, j)>>
          ELSE <<>>)
         \o SimilarFrom(vs, embs, i, j + 1)

\* lines 81-90
SimilarLoop(vs, embs) == SimilarFrom(vs, embs, 1, 2)

\* tfidf_matrix[i].nonzero()[1]
NonZero(row) == {k \in DOMAIN row : row[k] # 0}

\* a term kept when either weight is above the threshold: a plausible slip
KeptIfEither(rows, vocab, i, j, k) ==
    /\ (rows[i][k] > keyword_threshold \/ rows[j][k] > keyword_threshold)
    /\ vocab[k] \notin stop_words

\* line 96: the condition of the set comprehension
Kept(rows, vocab, i, j, k) ==
    /\ rows[i][k] > keyword_threshold
    /\ rows[j][k] > keyword_threshold
    /\ vocab[k] \notin stop_words

\* lines 95-96
CommonKeywords(rows, vocab, i, j) ==
    {vocab[k] : k \in {c \in NonZero(rows[i]) \cap NonZero(rows[j]) :
                          Kept(rows, vocab, i, j, c)}}

\* line 101: list(common_keywords), in the iteration order ord of the str set
ListOf(S, ord) ==
    LET In(t) == t \in S
    IN  SelectSeq(ord, In)

\* lines 93-103, from the pair (i, j) on
RECURSIVE KeywordFrom(_, _, _, _, _, _)
KeywordFrom(vs, rows, vocab, ord, i, j) ==
    IF i > Len(vs) THEN <<>>
    ELSE IF j > Len(vs) THEN KeywordFrom(vs, rows, vocab, ord, i + 1, i + 2)
    ELSE (IF CommonKeywords(rows, vocab, i, j) # {}
          THEN <<[start_id |-> Str(vs[i].id), end_id |-> Str(vs[j].id),
                  keywords |-> ListOf(CommonKeywords(rows, vocab, i, j), ord)]>>
          ELSE <<>>)
         \o KeywordFrom(vs, rows, vocab, ord, i, j + 1)

KeywordLoop(vs, rows, vocab, ord) == KeywordFrom(vs, rows, vocab, ord, 1, 2)

\* the orders in which a set of the terms may be iterated (str hashes are
\* salted per process)
Orders(vocab) ==
    {p \in [1..Len(vocab) -> Range(vocab)] : Range(p) = Range(vocab)}

----------------------------------------------------------------------------
(* Inputs.                                                                 *)

SeqsUpTo(S, n) == UNION {[1..k -> S] : k \in 0..n}

Node(i, c) == [id |-> i, content |-> c]

\* node records of the pipeline runs: every node has an id, some have no text
PipelineNodes ==
    {Node(i, c) :
        i \in {IntValue(1), StrValue(<<"1">>), StrValue(<<"a">>)},
        c \in {StrValue(<<>>), StrValue(TextStop), StrValue(TextHeading),
               StrValue(TextPlain)}}

\* node records of the filter runs: every kind of id and of content
RawNodes ==
    {Node(i, c) :
        i \in {NoneValue, IntValue(0), StrValue(<<>>), IntValue(1),
               StrValue(<<"1">>), StrValue(<<"a">>)},
        c \in {NoneValue, StrValue(<<>>), StrValue(TextPlain)}}

Environments == {"A", "B"}

----------------------------------------------------------------------------
(* vectorize_and_find_similar, one action per statement group.             *)

Idle ==
    /\ valid_nodes = <<>>
    /\ contents = <<>>
    /\ embeddings = <<>>
    /\ tfidf_matrix = <<>>
    /\ keywords = <<>>
    /\ similar_pairs = <<>>
    /\ keyword_pairs = <<>>
    /\ causal_pairs = <<>>
    /\ hierarchical_pairs = <<>>

Init ==
    /\ pc = "start"
    /\ nodes \in SeqsUpTo(PipelineNodes, MaxNodes)
    /\ env \in Environments
    /\ Idle

\* lines 63-64
Filter ==
    /\ pc = "start"
    /\ valid_nodes' = FilterNodes(nodes)
    /\ contents' = ContentsOf(nodes, FilterNodes(nodes))
    /\ pc' = "encode"
    /\ UNCHANGED <<nodes, env, embeddings, tfidf_matrix, keywords, similar_pairs,
                   keyword_pairs, causal_pairs, hierarchical_pairs>>

\* line 67
Encode ==
    /\ pc = "encode"
    /\ embeddings' = [k \in 1..Len(contents) |-> Encoder(env, contents[k])]
    /\ pc' = "tfidf"
    /\ UNCHANGED <<nodes, env, valid_nodes, contents, tfidf_matrix, keywords,
                   similar_pairs, keyword_pairs, causal_pairs, hierarchical_pairs>>

\* lines 70-72, the vocabulary is not empty
FitTransform ==
    /\ pc = "tfidf"
    /\ LET vocab == Vocabulary(contents)
       IN  /\ vocab # <<>>
           /\ tfidf_matrix' = TfidfRows(env, contents, vocab)
           /\ keywords' = vocab
    /\ pc' = "causal"
    /\ UNCHANGED <<nodes, env, valid_nodes, contents, embeddings, similar_pairs,
                   keyword_pairs, causal_pairs, hierarchical_pairs>>

\* line 71: fit_transform raises ValueError("empty vocabulary; ...") when no
\* text has a term left; nothing catches it, the call ends with the exception
FitTransformRaises ==
    /\ pc = "tfidf"
    /\ Vocabulary(contents) = <<>>
    /\ pc' = "error"
    /\ UNCHANGED <<nodes, env, valid_nodes, contents, embeddings, tfidf_matrix,
                   keywords, similar_pairs, keyword_pairs, causal_pairs,
                   hierarchical_pairs>>

\* line 77
DetectCausal ==
    /\ pc = "causal"
    /\ causal_pairs' = detect_causal_relationships(contents)
    /\ pc' = "hierarchical"
    /\ UNCHANGED <<nodes, env, valid_nodes, contents, embeddings, tfidf_matrix,
                   keywords, similar_pairs, keyword_pairs, hierarchical_pairs>>

\* line 78
DetectHierarchical ==
    /\ pc = "hierarchical"
    /\ hierarchical_pairs' = detect_hierarchical_relationships(contents)
    /\ pc' = "similar"
    /\ UNCHANGED <<nodes, env, valid_nodes, contents, embeddings, tfidf_matrix,
                   keywords, similar_pairs, keyword_pairs, causal_pairs>>

\* lines 81-90
Similar ==
    /\ pc = "similar"
    /\ similar_pairs' = SimilarLoop(valid_nodes, embeddings)
    /\ pc' = "keyword"
    /\ UNCHANGED <<nodes, env, valid_nodes, contents, embeddings, tfidf_matrix,
                   keywords, keyword_pairs, causal_pairs, hierarchical_pairs>>

\* lines 93-105: the keyword loop, then the return
Keyword ==
    /\ pc = "keyword"
    /\ \E ord \in Orders(keywords) :
           keyword_pairs' = KeywordLoop(valid_nodes, tfidf_matrix, keywords, ord)
    /\ pc' = "done"
    /\ UNCHANGED <<nodes, env, valid_nodes, contents, embeddings, tfidf_matrix,
                   keywords, similar_pairs, causal_pairs, hierarchical_pairs>>

Next ==
    \/ Filter
    \/ Encode
    \/ FitTransform
    \/ FitTransformRaises
    \/ DetectCausal
    \/ DetectHierarchical
    \/ Similar
    \/ Keyword

Spec == Init /\ [][Next]_vars

----------------------------------------------------------------------------
(* The node filter alone, on every kind of raw record.                     *)

InitFilter ==
    /\ pc = "start"
    /\ nodes \in SeqsUpTo(RawNodes, MaxNodes)
    /\ env = "A"
    /\ Idle

NextFilter == Filter

SpecFilter == InitFilter /\ [][NextFilter]_vars

----------------------------------------------------------------------------
(* The two detectors alone, on generated texts.                            *)

RECURSIVE Flatten(_)
Flatten(ss) == IF ss = <<>> THEN <<>> ELSE Head(ss) \o Flatten(Tail(ss))

\* every string of heading characters up to MaxLen
HeadingTexts == SeqsUpTo({"1", "A", ".", " ", "\n"}, MaxLen)

\* the phrases, two of them in other letter cases, and two fillers
Parts ==
    Range(causal_phrases) \cup
    { <<"B", "E", "C", "A", "U", "S", "E">>, <<"S", "i", "n", "c", "e">>,
      <<"x">>, <<" ">> }

PhraseTexts == {Flatten(ps) : ps \in SeqsUpTo(Parts, MaxWords)}

\* one text holding all twelve phrases
AllPhrases == Flatten(causal_phrases)

Fillers == <<
    <<"A", ".", " ", "s", "o", " ", "t", "h", "a", "t">>,
    <<"x">> >>

Pad(k) == [i \in 1..k |-> Fillers[((i - 1) % Len(Fillers)) + 1]]

DetectorInputs ==
    {Pad(k) \o <<t>> :
        k \in 0..MaxPad, t \in HeadingTexts \cup PhraseTexts \cup {AllPhrases}}

InitDetect ==
    /\ pc = "call_causal"
    /\ contents \in DetectorInputs
    /\ nodes = <<>>
    /\ env = "A"
    /\ valid_nodes = <<>>
    /\ embeddings = <<>>
    /\ tfidf_matrix = <<>>
    /\ keywords = <<>>
    /\ similar_pairs = <<>>
    /\ keyword_pairs = <<>>
    /\ causal_pairs = <<>>
    /\ hierarchical_pairs = <<>>

\* detect_causal_relationships(contents), lines 29-40
CallDetectCausal ==
    /\ pc = "call_causal"
    /\ causal_pairs' = detect_causal_relationships(contents)
    /\ pc' = "call_hierarchical"
    /\ UNCHANGED <<nodes, env, valid_nodes, contents, embeddings, tfidf_matrix,
                   keywords, similar_pairs, keyword_pairs, hierarchical_pairs>>

\* detect_hierarchical_relationships(contents), lines 42-56
CallDetectHierarchical ==
    /\ pc = "call_hierarchical"
    /\ hierarchical_pairs' = detect_hierarchical_relationships(contents)
    /\ pc' = "returned"
    /\ UNCHANGED <<nodes, env, valid_nodes, contents, embeddings, tfidf_matrix,
                   keywords, similar_pairs, keyword_pairs, causal_pairs>>

NextDetect == CallDetectCausal \/ CallDetectHierarchical

SpecDetect == InitDetect /\ [][NextDetect]_vars

----------------------------------------------------------------------------
(* What the claims speak of, stated from the raw input.                    *)

\* a value the filter counts as absent: missing, 0 or the empty string
IsFalsy(v) == v = NoneValue \/ v = IntValue(0) \/ v = StrValue(<<>>)

\* the raw positions (1-based) of the records that survive
KeptRaw ==
    {i \in 1..Len(nodes) : ~IsFalsy(nodes[i].id) /\ ~IsFalsy(nodes[i].content)}

\* the 0-based position, among the survivors, of the record at raw position i
FilteredPos(i) == Cardinality({m \in KeptRaw : m < i})

PairLess(p, q) == p[1] < q[1] \/ (p[1] = q[1] /\ p[2] < q[2])

\* the k-th pair of S in increasing lexicographic order
NthPair(S, k) == CHOOSE p \in S : Cardinality({q \in S : PairLess(q, p)}) = k - 1

PositionPairs ==
    {p \in (1..Len(valid_nodes)) \X (1..Len(valid_nodes)) : p[1] < p[2]}

\* every id that appears in similar_pairs or keyword_pairs
PairIds ==
    {similar_pairs[a].start_id : a \in 1..Len(similar_pairs)} \cup
    {similar_pairs[a].end_id : a \in 1..Len(similar_pairs)} \cup
    {keyword_pairs[a].start_id : a \in 1..Len(keyword_pairs)} \cup
    {keyword_pairs[a].end_id : a \in 1..Len(keyword_pairs)}

----------------------------------------------------------------------------
\* C1: similar_pairs holds no entry with start_id = end_id, no two entries
\* for the same unordered pair of ids, and only similarities above the
\* threshold -- also when two valid nodes declare ids with the same rendering.
C1_NoSelfPairNoDuplicate ==
    pc = "done" =>
        \A a \in 1..Len(similar_pairs) :
            /\ similar_pairs[a].start_id # similar_pairs[a].end_id
            /\ similar_pairs[a].similarity > threshold
            /\ \A b \in 1..Len(similar_pairs) :
                   b # a =>
                       {similar_pairs[a].start_id, similar_pairs[a].end_id}
                       # {similar_pairs[b].start_id, similar_pairs[b].end_id}

\* C2: with zero or one valid node the call never ends in an exception and
\* returns four empty collections.
C2_FewNodesGiveEmptyResult ==
    Cardinality(KeptRaw) <= 1 =>
        /\ pc # "error"
        /\ pc = "done" =>
               /\ similar_pairs = <<>>
               /\ keyword_pairs = <<>>
               /\ causal_pairs = <<>>
               /\ hierarchical_pairs = <<>>

\* C3 as claimed: every id in similar_pairs and keyword_pairs is the rendering
\* of a surviving node's id, and the id of a dropped node never appears.
C3_DroppedIdsNeverAppear ==
    pc = "done" =>
        /\ \A id \in PairIds : \E i \in KeptRaw : Str(nodes[i].id) = id
        /\ \A d \in (1..Len(nodes)) \ KeptRaw :
               nodes[d].id # NoneValue => Str(nodes[d].id) \notin PairIds

\* C3 as amended: every id in similar_pairs and keyword_pairs is the rendering
\* of the declared id of a surviving node (so a dropped node's id appears only
\* when a surviving node declares an id with the same rendering).
C3_IdsComeFromSurvivors ==
    pc = "done" =>
        \A id \in PairIds : \E i \in KeptRaw : Str(nodes[i].id) = id

\* a dropped node and a surviving one share an id, and that id is in a pair
C3_Witness ==
    /\ pc = "done"
    /\ \E d \in (1..Len(nodes)) \ KeptRaw : Str(nodes[d].id) \in PairIds
    /\ similar_pairs # <<>>
    /\ keyword_pairs # <<>>

\* C4: the filter never fails, and returns exactly the records whose content
\* and id are both truthy, in their original order.
C4_FilterKeepsTruthyInOrder ==
    /\ pc = "start" => ENABLED Filter
    /\ pc = "encode" =>
           /\ Len(valid_nodes) = Cardinality(KeptRaw)
           /\ \A i \in KeptRaw : valid_nodes[FilteredPos(i) + 1] = nodes[i]

\* the middle record of three has id 0 and is dropped, the other two stay
C4_Witness ==
    /\ pc = "encode"
    /\ Len(nodes) = 3
    /\ nodes[2].id = IntValue(0)
    /\ nodes[1] # nodes[3]
    /\ valid_nodes = <<nodes[1], nodes[3]>>

\* the weight of term t in the row of filtered position k
WeightOf(k, t) ==
    tfidf_matrix[k][CHOOSE c \in 1..Len(keywords) : keywords[c] = t]

\* K(i, j): the terms above the keyword threshold in both rows, stopwords out
SharedKeywords(p) ==
    {t \in Range(keywords) :
        /\ t \notin stop_words
        /\ WeightOf(p[1], t) > keyword_threshold
        /\ WeightOf(p[2], t) > keyword_threshold}

KeywordPositions == {p \in PositionPairs : SharedKeywords(p) # {}}

\* C5: a KeywordPair is emitted for the filtered positions i < j exactly when
\* K(i, j) is not empty, and its keywords are exactly K(i, j), each term once.
C5_KeywordPairsAreSharedKeywords ==
    pc = "done" =>
        /\ Len(keyword_pairs) = Cardinality(KeywordPositions)
        /\ \A a \in 1..Len(keyword_pairs) :
               LET p == NthPair(KeywordPositions, a)
                   e == keyword_pairs[a]
               IN  /\ e.start_id = Str(valid_nodes[p[1]].id)
                   /\ e.end_id = Str(valid_nodes[p[2]].id)
                   /\ Range(e.keywords) = SharedKeywords(p)
                   /\ Len(e.keywords) = Cardinality(SharedKeywords(p))

\* one pair shares two keywords, another shares a term that is not above the
\* threshold in both rows and is not emitted
C5_Witness ==
    /\ pc = "done"
    /\ \E a \in 1..Len(keyword_pairs) : Len(keyword_pairs[a].keywords) = 2
    /\ \E p \in PositionPairs :
           /\ NonZero(tfidf_matrix[p[1]]) \cap NonZero(tfidf_matrix[p[2]]) # {}
           /\ SharedKeywords(p) = {}

\* C8: the id of a causal or hierarchical entry is the 0-based position of the
\* content among the surviving nodes; the ids of a similarity or keyword
\* entry are the declared ids of two surviving nodes, the earlier one first.
C8_DetectorIdsArePositions ==
    pc = "done" =>
        /\ \A a \in 1..Len(causal_pairs) :
               \E i \in KeptRaw :
                   /\ causal_pairs[a].id = IntToStr(FilteredPos(i))
                   /\ causal_pairs[a].context = nodes[i].content.s
        /\ \A i \in KeptRaw : \A p \in 1..Len(causal_phrases) :
               PhraseFound(causal_phrases[p], nodes[i].content.s) =>
                   \E a \in 1..Len(causal_pairs) :
                       causal_pairs[a] =
                           [id |-> IntToStr(FilteredPos(i)),
                            phrase |-> causal_phrases[p],
                            context |-> nodes[i].content.s]
        /\ \A a \in 1..Len(hierarchical_pairs) :
               \E i \in KeptRaw :
                   hierarchical_pairs[a] =
                       [id |-> IntToStr(FilteredPos(i)),
                        heading |-> nodes[i].content.s]
        /\ \A i \in KeptRaw :
               (\E q \in Range(heading_patterns) :
                    PatternMatch(q, nodes[i].content.s)) =>
                   \E a \in 1..Len(hierarchical_pairs) :
                       hierarchical_pairs[a] =
                           [id |-> IntToStr(FilteredPos(i)),
                            heading |-> nodes[i].content.s]
        /\ \A a \in 1..Len(similar_pairs) :
               \E i, j \in KeptRaw :
                   /\ i < j
                   /\ similar_pairs[a] =
                          [start_id |-> Str(nodes[i].id),
                           end_id |-> Str(nodes[j].id),
                           similarity |->
                               cosine_similarity(
                                   Encoder(env, nodes[i].content.s),
                                   Encoder(env, nodes[j].content.s))]
        /\ \A a \in 1..Len(keyword_pairs) :
               \E i, j \in KeptRaw :
                   /\ i < j
                   /\ keyword_pairs[a].start_id = Str(nodes[i].id)
                   /\ keyword_pairs[a].end_id = Str(nodes[j].id)

\* a causal entry whose id is neither the raw position nor the declared id of
\* its node, beside a similarity entry that carries declared ids
C8_Witness ==
    /\ pc = "done"
    /\ similar_pairs # <<>>
    /\ \E a \in 1..Len(causal_pairs) : \E i \in KeptRaw :
           /\ causal_pairs[a].id = IntToStr(FilteredPos(i))
           /\ causal_pairs[a].context = nodes[i].content.s
           /\ FilteredPos(i) # i - 1
           /\ causal_pairs[a].id # Str(nodes[i].id)
           /\ \A m \in KeptRaw : m # i => nodes[m].content # nodes[i].content

SimilarPositions ==
    {p \in PositionPairs :
        cosine_similarity(embeddings[p[1]], embeddings[p[2]]) > threshold}

\* C9: similar_pairs lists, once each and in increasing (i, j) order, exactly
\* the filtered positions i < j whose cosine similarity is strictly above the
\* threshold; start_id belongs to the smaller position.
C9_SimilarPairsInOrder ==
    pc = "done" =>
        /\ Len(similar_pairs) = Cardinality(SimilarPositions)
        /\ \A a \in 1..Len(similar_pairs) :
               LET p == NthPair(SimilarPositions, a)
               IN  similar_pairs[a] =
                       [start_id |-> Str(valid_nodes[p[1]].id),
                        end_id |-> Str(valid_nodes[p[2]].id),
                        similarity |->
                            cosine_similarity(embeddings[p[1]], embeddings[p[2]])]

\* two pairs are emitted and a third, whose similarity equals the threshold,
\* is not
C9_Witness ==
    /\ pc = "done"
    /\ Len(similar_pairs) = 2
    /\ similar_pairs[1].start_id = similar_pairs[2].end_id
    /\ \E p \in PositionPairs :
           cosine_similarity(embeddings[p[1]], embeddings[p[2]]) = threshold

----------------------------------------------------------------------------
(* The detectors.                                                          *)

\* two characters that are the same up to letter case
SameLetter(a, b) ==
    \/ a = b
    \/ \E i \in 1..Len(LowerLetters) : {a, b} = {LowerLetters[i], UpperLetters[i]}

\* the offsets at which phrase occurs in content, letter case ignored
Occurrences(phrase, content) ==
    {off \in 0..(Len(content) - Len(phrase)) :
        \A m \in 1..Len(phrase) : SameLetter(content[off + m], phrase[m])}

CausalAt(k, p) ==
    {a \in 1..Len(causal_pairs) :
        /\ causal_pairs[a].id = IntToStr(k - 1)
        /\ causal_pairs[a].phrase = causal_phrases[p]}

HierarchicalAt(k) ==
    {a \in 1..Len(hierarchical_pairs) : hierarchical_pairs[a].id = IntToStr(k - 1)}

\* C6: one CausalMatch for each (position, phrase) whose phrase, one of the
\* twelve, occurs in the content with letter case ignored -- one even when it
\* occurs several times, none when it does not occur; context is the content.
C6_OneMatchPerPositionAndPhrase ==
    pc \in {"call_hierarchical", "returned"} =>
        /\ Len(causal_phrases) = 12
        /\ \A k \in 1..Len(contents) : \A p \in 1..Len(causal_phrases) :
               Cardinality(CausalAt(k, p)) =
                   IF Occurrences(causal_phrases[p], contents[k]) # {} THEN 1 ELSE 0
        /\ \A a \in 1..Len(causal_pairs) :
               \E k \in 1..Len(contents) : \E p \in 1..Len(causal_phrases) :
                   causal_pairs[a] =
                       [id |-> IntToStr(k - 1), phrase |-> causal_phrases[p],
                        context |-> contents[k]]

\* a phrase occurs twice in one content, once of them in upper case, and has
\* one entry; another content has an entry of its own
C6_Witness ==
    /\ pc = "returned"
    /\ Len(contents) = 2
    /\ Cardinality(Occurrences(causal_phrases[1], contents[2])) = 2
    /\ contents[2] # Lower(contents[2])
    /\ Cardinality(CausalAt(2, 1)) = 1
    /\ Len(causal_pairs) = 2

\* the heading shape: a leading run of the pattern's class, a period, a run
\* of whitespace, then one more character (not a newline, when strict)
HeadingShape(q, c, strict) ==
    \E d \in 1..Len(c) : \E w \in 1..Len(c) :
        /\ d + w + 2 <= Len(c)
        /\ \A m \in 1..d :
               IF q = "digits" THEN c[m] \in DigitSet
               ELSE c[m] \in LowerSet \cup UpperSet
        /\ c[d + 1] = "."
        /\ \A m \in 1..w : c[d + 1 + m] \in SpaceSet
        /\ strict => c[d + w + 2] # "\n"

HierarchicalMatchesShape(strict) ==
    pc = "returned" =>
        /\ \A k \in 1..Len(contents) :
               Cardinality(HierarchicalAt(k)) =
                   Cardinality({q \in Range(heading_patterns) :
                                   HeadingShape(q, contents[k], strict)})
        /\ \A a \in 1..Len(hierarchical_pairs) :
               \E k \in 1..Len(contents) :
                   hierarchical_pairs[a] =
                       [id |-> IntToStr(k - 1), heading |-> contents[k]]

\* C7 as claimed: one HierarchicalMatch, its heading the whole content, for
\* each (position, pattern) whose content starts with digits or letters, a
\* period, whitespace and at least one more character; none otherwise.
C7_MatchIffShapeAtStart == HierarchicalMatchesShape(FALSE)

\* C7 as amended: the character after the whitespace must not be a newline.
C7_MatchIffShapeBeforeNonNewline == HierarchicalMatchesShape(TRUE)

\* a heading of digits at the second position has its entry, with id "1"
C7_Witness ==
    /\ pc = "returned"
    /\ Len(contents) = 2
    /\ HeadingShape("digits", contents[2], TRUE)
    /\ \E a \in 1..Len(hierarchical_pairs) :
           hierarchical_pairs[a] = [id |-> <<"1">>, heading |-> contents[2]]

\* C10: no content matches both patterns, so hierarchical_pairs has at most
\* one entry per position and no more entries than contents; causal_pairs has
\* at most one entry per (position, phrase) and at most 12 per position.
C10_AtMostOneHeadingPerPosition ==
    pc = "returned" =>
        /\ Len(hierarchical_pairs) <= Len(contents)
        /\ \A k \in 1..Len(contents) :
               /\ Cardinality(HierarchicalAt(k)) <= 1
               /\ ~(\A q \in Range(heading_patterns) : PatternMatch(q, contents[k]))
               /\ \A p \in 1..Len(causal_phrases) : Cardinality(CausalAt(k, p)) <= 1
               /\ Cardinality({a \in 1..Len(causal_pairs) :
                                  causal_pairs[a].id = IntToStr(k - 1)}) <= 12

\* one content holds all twelve phrases, another is a heading
C10_Witness ==
    /\ pc = "returned"
    /\ hierarchical_pairs # <<>>
    /\ \E k \in 1..Len(contents) :
           Cardinality({a \in 1..Len(causal_pairs) :
                           causal_pairs[a].id = IntToStr(k - 1)}) = 12

====
